---- MODULE Spec2Model ----
(***************************************************************************)
(* Model of ritual's C++ FFI generator (ritual/src/cpp_ffi_generator.rs):  *)
(* the name provider, the eligibility filter, the function synthesizer     *)
(* to_ffi_method, the overload expander, the field accessor and cast       *)
(* generators, and the driver `run` with its persisted state.              *)
(***************************************************************************)
EXTENDS Integers, Sequences, FiniteSets, TLC

VARIABLES
    cpp_items,      \* data.current_database.cpp_items[i].cpp_data
    processed,      \* data.current_database.cpp_items[i].is_cpp_ffi_processed
    ffi_items,      \* data.current_database.ffi_items
    dep_items,      \* items of the dependencies' databases (part of all_items)
    movable_types,  \* local of run
    name_provider,  \* local of run: the FfiNameProvider
    result,         \* local of run: the outcome of the last generator call
    idx,            \* position of the `for item in cpp_items` loop
    pc,             \* "idle" | "loop" (driver), "ready" | "done" (one call)
    pass,           \* number of finished passes
    contributed     \* history: per item, the passes that appended functions of it

vars == <<cpp_items, processed, ffi_items, dep_items, movable_types,
          name_provider, result, idx, pc, pass, contributed>>

\* ---------------------------------------------------------------- bounds
NumItems == 2
MaxPasses == 2
MaxArgs == 3

\* ---------------------------------------------------------------- Option, Result
None == [some |-> FALSE]
Some(v) == [some |-> TRUE, val |-> v]

Ok(v, np) == [ok |-> TRUE, val |-> v, np |-> np]
Err(msg, np) == [ok |-> FALSE, msg |-> msg, np |-> np]

\* ---------------------------------------------------------------- paths and types
CppPathItem(name, targs) == [name |-> name, template_arguments |-> targs]
from_good_str(s) == CppPathItem(s, None)
from_item(item) == <<item>>
PathOf(names) == [i \in 1..Len(names) |-> from_good_str(names[i])]

VoidType == [k |-> "Void"]
IntType == [k |-> "BuiltInNumeric"]
TemplateParameter == [k |-> "TemplateParameter"]
\* a type outside the cases the generator inspects (function pointer, rvalue
\* reference, ...): it carries the outcome of its conversion in each role
Opaque(arg_ok, ret_ok) == [k |-> "Opaque", arg_ok |-> arg_ok, ret_ok |-> ret_ok]
Class(path) == [k |-> "Class", path |-> path]
PointerLike(kind, is_const, target) ==
    [k |-> "PointerLike", kind |-> kind, is_const |-> is_const, target |-> target]
new_pointer(is_const, target) == PointerLike("Pointer", is_const, target)
new_reference(is_const, target) == PointerLike("Reference", is_const, target)

is_class(t) == t.k = "Class"
last(path) == path[Len(path)]
\* CppPath::parent: Err for a path of one item
parent(path) == IF Len(path) > 1 THEN Some(SubSeq(path, 1, Len(path) - 1)) ELSE None

is_qflags(path) == Len(path) = 1 /\ path[1].name = "QFlags"

RECURSIVE is_or_contains_template_parameter(_)
is_or_contains_template_parameter(t) ==
    CASE t.k = "TemplateParameter" -> TRUE
      [] t.k = "PointerLike" -> is_or_contains_template_parameter(t.target)
      [] t.k = "Class" ->
            \E i \in 1..Len(t.path) :
                /\ t.path[i].template_arguments.some
                /\ \E j \in 1..Len(t.path[i].template_arguments.val) :
                       is_or_contains_template_parameter(t.path[i].template_arguments.val[j])
      [] OTHER -> FALSE

RECURSIVE Join(_, _)
Join(strs, sep) ==
    IF Len(strs) = 0 THEN ""
    ELSE IF Len(strs) = 1 THEN strs[1]
    ELSE strs[1] \o sep \o Join(Tail(strs), sep)

RECURSIVE type_ascii_caption(_)
path_ascii_caption(path) ==
    Join([i \in 1..Len(path) |->
            IF path[i].template_arguments.some
            THEN path[i].name \o "_" \o
                 Join([j \in 1..Len(path[i].template_arguments.val) |->
                          type_ascii_caption(path[i].template_arguments.val[j])], "_")
            ELSE path[i].name], "_")
type_ascii_caption(t) ==
    CASE t.k = "Void" -> "void"
      [] t.k = "BuiltInNumeric" -> "int"
      [] t.k = "TemplateParameter" -> "T"
      [] t.k = "Opaque" -> "opaque"
      [] t.k = "Class" -> path_ascii_caption(t.path)
      [] t.k = "PointerLike" ->
            (IF t.is_const THEN "const_" ELSE "") \o type_ascii_caption(t.target)
            \o (IF t.kind = "Pointer" THEN "_ptr" ELSE "_ref")

\* CppPath::to_cpp_code, for paths without template arguments
path_to_cpp_code(path) == Join([i \in 1..Len(path) |-> path[i].name], "::")

\* ---------------------------------------------------------------- type conversion
CppFfiType(original, ffi, conversion) ==
    [original_type |-> original, ffi_type |-> ffi, conversion |-> conversion]
ffi_void == CppFfiType(VoidType, VoidType, "NoChange")

\* CppType::to_cpp_ffi_type(role): Some(ffi type), or None when the conversion fails
to_cpp_ffi_type(t, role) ==
    IF is_or_contains_template_parameter(t) THEN None
    ELSE CASE t.k = "Class" ->
                IF is_qflags(t.path)
                THEN Some(CppFfiType(t, IntType, "QFlagsToUInt"))
                ELSE Some(CppFfiType(t, new_pointer(role # "ReturnType", t), "ValueToPointer"))
           [] t.k = "PointerLike" ->
                IF t.kind = "Pointer" THEN Some(CppFfiType(t, t, "NoChange"))
                ELSE Some(CppFfiType(t, new_pointer(t.is_const, t.target), "ReferenceToPointer"))
           [] t.k = "Opaque" ->
                IF (IF role = "ReturnType" THEN t.ret_ok ELSE t.arg_ok)
                THEN Some(CppFfiType(t, t, "NoChange"))
                ELSE None
           [] OTHER -> Some(CppFfiType(t, t, "NoChange"))

\* ---------------------------------------------------------------- FfiNameProvider
Prefix == "ctr_lib_ffi"

\* names: the HashSet; history: the paths create_path has returned, in call
\* order (a history variable, not a field of the struct)
FfiNameProvider(prefix, names) == [prefix |-> prefix, names |-> names, history |-> <<>>]

FfiNameProvider_new(items) ==
    FfiNameProvider(Prefix, {path_to_cpp_code(items[i].path) : i \in 1..Len(items)})

full_name_of(np, name, num) ==
    np.prefix \o "_" \o name \o (IF num.some THEN ToString(num.val) ELSE "")

\* bug: only one numbered candidate is tried, the loop is missing
create_path_loop_once(np, name, num) ==
    IF full_name_of(np, name, None) \notin np.names THEN full_name_of(np, name, None)
    ELSE full_name_of(np, name, Some(1))

RECURSIVE create_path_loop(_, _, _)
create_path_loop(np, name, num) ==
    IF full_name_of(np, name, num) \notin np.names THEN full_name_of(np, name, num)
    ELSE create_path_loop(np, name, Some(IF num.some THEN num.val + 1 ELSE 1))

\* bug: the returned name is not inserted into the set
reserve_forgets(np, full_name) ==
    [path |-> from_item(from_good_str(full_name)),
     np |-> [np EXCEPT !.history = Append(@, from_item(from_good_str(full_name)))]]

\* lines 65-67: the path and the provider after the call
reserve(np, full_name) ==
    [path |-> from_item(from_good_str(full_name)),
     np |-> [np EXCEPT !.names = @ \cup {full_name},
                       !.history = Append(@, from_item(from_good_str(full_name)))]]

create_path(np, name) == reserve(np, create_path_loop(np, name, None))

\* ---------------------------------------------------------------- callables
CppFunctionArgument(name, t, has_default_value) ==
    [name |-> name, argument_type |-> t, has_default_value |-> has_default_value]

\* CppFunction::class_type: the parent of the path of a member function
class_type(f) == IF f.member.some THEN parent(f.path) ELSE None
is_constructor(f) == f.member.some /\ f.member.val.kind = "Constructor"
is_destructor(f) == f.member.some /\ f.member.val.kind = "Destructor"

FunctionKind(f, omitted, cast) ==
    [tag |-> "Function", cpp_function |-> f, omitted_arguments |-> omitted, cast |-> cast]
FieldAccessorKind(field, accessor_type) ==
    [tag |-> "FieldAccessor", field |-> field, accessor_type |-> accessor_type]

This == [k |-> "This"]
Argument(i) == [k |-> "Argument", index |-> i]
ReturnValue == [k |-> "ReturnValue"]
CppFfiFunctionArgument(name, t, meaning) ==
    [name |-> name, argument_type |-> t, meaning |-> meaning]

\* ---------------------------------------------------------------- to_ffi_method
\* lines 302-316
ascii_caption_of(kind) ==
    IF kind.tag = "Function" THEN path_ascii_caption(kind.cpp_function.path)
    ELSE LET field_caption == path_ascii_caption(kind.field.path)
         IN  CASE kind.accessor_type = "CopyGetter" -> field_caption
               [] kind.accessor_type = "ConstRefGetter" -> field_caption
               [] kind.accessor_type = "MutRefGetter" -> field_caption \o "_mut"
               [] kind.accessor_type = "Setter" -> "set_" \o field_caption

\* bug: the pointer to the object of a member function is never const
this_arg_type_of_mutable(kind) ==
    IF kind.tag = "Function"
    THEN LET f == kind.cpp_function
         IN  IF f.member.some /\ ~f.member.val.is_static /\ f.member.val.kind # "Constructor"
             THEN [err |-> FALSE,
                   val |-> Some(new_pointer(FALSE, Class(class_type(f).val)))]
             ELSE [err |-> FALSE, val |-> None]
    ELSE IF kind.field.is_static THEN [err |-> FALSE, val |-> None]
         ELSE IF ~parent(kind.field.path).some THEN [err |-> TRUE, val |-> None]
         ELSE [err |-> FALSE,
               val |-> Some(new_pointer(kind.accessor_type \in {"CopyGetter", "ConstRefGetter"},
                                        Class(parent(kind.field.path).val)))]

\* bug: a static field is treated like any other field
this_arg_type_of_ignores_static(kind) ==
    IF kind.tag = "Function"
    THEN LET f == kind.cpp_function
         IN  IF f.member.some /\ ~f.member.val.is_static /\ f.member.val.kind # "Constructor"
             THEN [err |-> FALSE,
                   val |-> Some(new_pointer(f.member.val.is_const, Class(class_type(f).val)))]
             ELSE [err |-> FALSE, val |-> None]
    ELSE IF ~parent(kind.field.path).some THEN [err |-> TRUE, val |-> None]
         ELSE [err |-> FALSE,
               val |-> Some(new_pointer(kind.accessor_type \in {"CopyGetter", "ConstRefGetter"},
                                        Class(parent(kind.field.path).val)))]

\* lines 326-349: [err, val]; err when field.path.parent() fails
this_arg_type_of(kind) ==
    IF kind.tag = "Function"
    THEN LET f == kind.cpp_function
         IN  IF f.member.some /\ ~f.member.val.is_static /\ f.member.val.kind # "Constructor"
             THEN [err |-> FALSE,
                   val |-> Some(new_pointer(f.member.val.is_const, Class(class_type(f).val)))]
             ELSE [err |-> FALSE, val |-> None]
    ELSE IF kind.field.is_static THEN [err |-> FALSE, val |-> None]
         ELSE IF ~parent(kind.field.path).some THEN [err |-> TRUE, val |-> None]
         ELSE [err |-> FALSE,
               val |-> Some(new_pointer(kind.accessor_type \in {"CopyGetter", "ConstRefGetter"},
                                        Class(parent(kind.field.path).val)))]

\* lines 359-392, without the variadic check
normal_args_of(kind) ==
    IF kind.tag = "Function" THEN kind.cpp_function.arguments
    ELSE IF kind.accessor_type = "Setter"
         THEN <<CppFunctionArgument("value", kind.field.field_type, FALSE)>>
         ELSE <<>>

\* bug: the destructor does not look at the movable types
destructor_allocation_place_heap(kind, movable) ==
    IF kind.tag = "Function" /\ is_destructor(kind.cpp_function)
    THEN "Heap" ELSE "NotApplicable"

\* lines 365-374
destructor_allocation_place(kind, movable) ==
    IF kind.tag = "Function" /\ is_destructor(kind.cpp_function)
    THEN IF \E i \in 1..Len(movable) : movable[i] = class_type(kind.cpp_function).val
         THEN "Stack" ELSE "Heap"
    ELSE "NotApplicable"

\* lines 405-425
real_return_type_of(kind) ==
    IF kind.tag = "Function"
    THEN IF is_constructor(kind.cpp_function)
         THEN Class(class_type(kind.cpp_function).val)
         ELSE kind.cpp_function.return_type
    ELSE CASE kind.accessor_type = "CopyGetter" -> kind.field.field_type
           [] kind.accessor_type = "ConstRefGetter" -> new_reference(TRUE, kind.field.field_type)
           [] kind.accessor_type = "MutRefGetter" -> new_reference(FALSE, kind.field.field_type)
           [] kind.accessor_type = "Setter" -> VoidType

\* bug: the allocation place of a class that is not movable is left as it was
with_return_no_heap(r, real_return_type, real_return_type_ffi, movable) ==
    IF real_return_type.k = "Class" /\ ~is_qflags(real_return_type.path)
       /\ \E i \in 1..Len(movable) : movable[i] = real_return_type.path
    THEN [r EXCEPT !.arguments =
                       Append(@, CppFfiFunctionArgument("output", real_return_type_ffi,
                                                        ReturnValue)),
                   !.allocation_place = "Stack"]
    ELSE [r EXCEPT !.return_type = real_return_type_ffi]

\* bug: the value of a movable class is returned and has an output argument
with_return_both(r, real_return_type, real_return_type_ffi, movable) ==
    IF real_return_type.k = "Class" /\ ~is_qflags(real_return_type.path)
    THEN IF \E i \in 1..Len(movable) : movable[i] = real_return_type.path
         THEN [r EXCEPT !.arguments =
                            Append(@, CppFfiFunctionArgument("output", real_return_type_ffi,
                                                             ReturnValue)),
                        !.return_type = real_return_type_ffi,
                        !.allocation_place = "Stack"]
         ELSE [r EXCEPT !.return_type = real_return_type_ffi,
                        !.allocation_place = "Heap"]
    ELSE [r EXCEPT !.return_type = real_return_type_ffi]

\* lines 426-445: the function r with its return handled
with_return(r, real_return_type, real_return_type_ffi, movable) ==
    IF real_return_type.k = "Class" /\ ~is_qflags(real_return_type.path)
    THEN IF \E i \in 1..Len(movable) : movable[i] = real_return_type.path
         THEN [r EXCEPT !.arguments =
                            Append(@, CppFfiFunctionArgument("output", real_return_type_ffi,
                                                             ReturnValue)),
                        !.allocation_place = "Stack"]
         ELSE [r EXCEPT !.return_type = real_return_type_ffi,
                        !.allocation_place = "Heap"]
    ELSE [r EXCEPT !.return_type = real_return_type_ffi]

\* lines 351-357: [err, args], err when the type of `this` does not convert
this_conversion(c) ==
    IF c.some
    THEN [err |-> FALSE, args |-> <<CppFfiFunctionArgument("this_ptr", c.val, This)>>]
    ELSE [err |-> TRUE, args |-> <<>>]
this_args_of(this_arg_type) ==
    IF this_arg_type.err THEN [err |-> TRUE, args |-> <<>>]
    ELSE IF ~this_arg_type.val.some THEN [err |-> FALSE, args |-> <<>>]
    ELSE this_conversion(to_cpp_ffi_type(this_arg_type.val.val, "NotReturnType"))

\* lines 394-397: the conversion of each positional argument
c_types_of(normal_args) ==
    [i \in 1..Len(normal_args) |->
        to_cpp_ffi_type(normal_args[i].argument_type, "NotReturnType")]
\* bug: the positions are counted from one
positional_args_from_one(normal_args, c_types) ==
    [i \in 1..Len(normal_args) |->
        CppFfiFunctionArgument(normal_args[i].name, c_types[i].val, Argument(i))]
\* lines 398-402
positional_args(normal_args, c_types) ==
    [i \in 1..Len(normal_args) |->
        CppFfiFunctionArgument(normal_args[i].name, c_types[i].val, Argument(i - 1))]

\* bug: the check for variadic arguments is missing
to_ffi_method_steps_variadic_ok(kind, movable, cp, this_args, normal_args, c_types, real_return_type, real_return_type_ffi) ==
    IF this_args.err THEN Err("this_ptr", cp.np)
    ELSE IF \E i \in 1..Len(normal_args) : ~c_types[i].some
    THEN Err("argument type", cp.np)
    ELSE IF ~real_return_type_ffi.some THEN Err("return type", cp.np)
    ELSE Ok(with_return(
                [arguments |-> this_args.args \o positional_args(normal_args, c_types),
                 return_type |-> ffi_void,
                 path |-> cp.path,
                 allocation_place |-> destructor_allocation_place(kind, movable),
                 kind |-> kind],
                real_return_type, real_return_type_ffi.val, movable),
            cp.np)

\* lines 318-447, in the order of the code: the first failing step decides
to_ffi_method_steps(kind, movable, cp, this_args, normal_args, c_types, real_return_type, real_return_type_ffi) ==
    IF this_args.err THEN Err("this_ptr", cp.np)
    ELSE IF kind.tag = "Function" /\ kind.cpp_function.allows_variadic_arguments
    THEN Err("Variable arguments are not supported", cp.np)
    ELSE IF \E i \in 1..Len(normal_args) : ~c_types[i].some
    THEN Err("argument type", cp.np)
    ELSE IF ~real_return_type_ffi.some THEN Err("return type", cp.np)
    ELSE Ok(with_return(
                [arguments |-> this_args.args \o positional_args(normal_args, c_types),
                 return_type |-> ffi_void,
                 path |-> cp.path,
                 allocation_place |-> destructor_allocation_place(kind, movable),
                 kind |-> kind],
                real_return_type, real_return_type_ffi.val, movable),
            cp.np)

to_ffi_method_converted(kind, movable, cp, this_args, normal_args, real_return_type) ==
    to_ffi_method_steps(kind, movable, cp, this_args, normal_args,
                        c_types_of(normal_args), real_return_type,
                        to_cpp_ffi_type(real_return_type, "ReturnType"))

\* lines 297-448
to_ffi_method(kind, movable, np) ==
    to_ffi_method_converted(kind, movable,
                            create_path(np, ascii_caption_of(kind)),
                            this_args_of(this_arg_type_of(kind)),
                            normal_args_of(kind),
                            real_return_type_of(kind))

\* ---------------------------------------------------------------- generators
\* CppFfiItem::from_function wraps the function; CppFfiItem::path is its path
from_function(f) == f

DropLast(s) == SubSeq(s, 1, Len(s) - 1)

\* lines 269-285: the `while let Some(arg) = method_copy.arguments.pop()` loop;
\* method_copy is the copy after the pop, arg the popped argument
RECURSIVE expand_loop(_, _, _, _, _)
expand_pushed(method, method_copy, movable, methods, processed_method) ==
    IF ~processed_method.ok THEN processed_method
    ELSE expand_loop(method, method_copy, movable, processed_method.np,
                     Append(methods, from_function(processed_method.val)))
\* bug: the popped argument is not checked for a default value
expand_popped_any(method, method_copy, arg, movable, np, methods) ==
    expand_pushed(method, method_copy, movable, methods,
        to_ffi_method(
            FunctionKind(method_copy,
                Some(Len(method.arguments) - Len(method_copy.arguments)),
                None),
            movable, np))
expand_popped(method, method_copy, arg, movable, np, methods) ==
    IF ~arg.has_default_value THEN Ok(methods, np)
    ELSE expand_pushed(method, method_copy, movable, methods,
             to_ffi_method(
                 FunctionKind(method_copy,
                     Some(Len(method.arguments) - Len(method_copy.arguments)),
                     None),
                 movable, np))
expand_loop(method, method_copy, movable, np, methods) ==
    IF Len(method_copy.arguments) = 0 THEN Ok(methods, np)
    ELSE expand_popped(method, [method_copy EXCEPT !.arguments = DropLast(@)],
                       last(method_copy.arguments), movable, np, methods)

\* lines 266-289, after the full-arity function
expand_defaults(method, movable, first) ==
    IF ~first.ok THEN first
    ELSE IF Len(method.arguments) > 0 /\ last(method.arguments).has_default_value
    THEN expand_loop(method, method, movable, first.np, <<from_function(first.val)>>)
    ELSE Ok(<<from_function(first.val)>>, first.np)

\* lines 250-290
generate_ffi_methods_for_method(method, movable, np) ==
    expand_defaults(method, movable,
                    to_ffi_method(FunctionKind(method, None, None), movable, np))

\* a sequence of `new_methods.push(create(kind)?)` statements; r is the
\* outcome of the first of them
RECURSIVE push_each(_, _, _, _)
\* bug: a failing call ends the sequence but keeps what was pushed before it
pushed_keep(kinds, movable, new_methods, r) ==
    IF ~r.ok THEN Ok(new_methods, r.np)
    ELSE push_each(Tail(kinds), movable, r.np, Append(new_methods, from_function(r.val)))
pushed(kinds, movable, new_methods, r) ==
    IF ~r.ok THEN r
    ELSE push_each(Tail(kinds), movable, r.np, Append(new_methods, from_function(r.val)))
push_each(kinds, movable, np, new_methods) ==
    IF Len(kinds) = 0 THEN Ok(new_methods, np)
    ELSE pushed(kinds, movable, new_methods, to_ffi_method(kinds[1], movable, np))

\* bug: the visibility of the field is not checked
generate_field_accessors_any_visibility(field, movable, np) ==
    push_each(
        (IF is_class(field.field_type)
         THEN <<FieldAccessorKind(field, "ConstRefGetter"),
                FieldAccessorKind(field, "MutRefGetter")>>
         ELSE <<FieldAccessorKind(field, "CopyGetter")>>)
        \o <<FieldAccessorKind(field, "Setter")>>,
        movable, np, <<>>)

\* bug: the type of the field is not inspected, a copy getter is always made
generate_field_accessors_copy_getter(field, movable, np) ==
    push_each(
        IF field.visibility = "Public"
        THEN <<FieldAccessorKind(field, "CopyGetter"), FieldAccessorKind(field, "Setter")>>
        ELSE <<>>,
        movable, np, <<>>)

\* lines 451-479
generate_field_accessors(field, movable, np) ==
    push_each(
        IF field.visibility = "Public"
        THEN (IF is_class(field.field_type)
              THEN <<FieldAccessorKind(field, "ConstRefGetter"),
                     FieldAccessorKind(field, "MutRefGetter")>>
              ELSE <<FieldAccessorKind(field, "CopyGetter")>>)
             \o <<FieldAccessorKind(field, "Setter")>>
        ELSE <<>>,
        movable, np, <<>>)

Static(is_unsafe, base_index) ==
    [tag |-> "Static", is_unsafe |-> is_unsafe, base_index |-> base_index]
Dynamic == [tag |-> "Dynamic"]
cpp_method_name(cast) == IF cast.tag = "Static" THEN "static_cast" ELSE "dynamic_cast"

\* lines 149-184: the kind handed to to_ffi_method (with movable_types = [])
cast_kind(cast, from, to) ==
    FunctionKind(
        [path |-> from_item(CppPathItem(cpp_method_name(cast), Some(<<to>>))),
         member |-> None,
         return_type |-> to,
         arguments |-> <<CppFunctionArgument("ptr", from, FALSE)>>,
         allows_variadic_arguments |-> FALSE],
        None, Some(cast))

\* bug: the cast from the base to the derived class is marked safe and the
\* cast from the derived class to the base unsafe
generate_casts_one_flags_swapped(target_type, base_type, direct_base_index, np) ==
    LET target_ptr_type == PointerLike("Pointer", FALSE, Class(target_type))
        base_ptr_type == PointerLike("Pointer", FALSE, Class(base_type))
    IN  push_each(
            <<cast_kind(Static(FALSE, direct_base_index), base_ptr_type, target_ptr_type),
              cast_kind(Static(TRUE, direct_base_index), target_ptr_type, base_ptr_type),
              cast_kind(Dynamic, base_ptr_type, target_ptr_type)>>,
            <<>>, np, <<>>)

\* lines 190-233
generate_casts_one(target_type, base_type, direct_base_index, np) ==
    LET target_ptr_type == PointerLike("Pointer", FALSE, Class(target_type))
        base_ptr_type == PointerLike("Pointer", FALSE, Class(base_type))
    IN  push_each(
            <<cast_kind(Static(TRUE, direct_base_index), base_ptr_type, target_ptr_type),
              cast_kind(Static(FALSE, direct_base_index), target_ptr_type, base_ptr_type),
              cast_kind(Dynamic, base_ptr_type, target_ptr_type)>>,
            <<>>, np, <<>>)

\* lines 237-248
generate_casts(base, np) ==
    generate_casts_one(base.derived_class_type, base.base_class_type, base.base_index, np)

\* ---------------------------------------------------------------- eligibility
FunctionItem(f) == [tag |-> "Function", val |-> f]
ClassFieldItem(field) == [tag |-> "ClassField", val |-> field]
ClassBaseItem(base) == [tag |-> "ClassBase", val |-> base]
TypeItem(path, kind) == [tag |-> "Type", val |-> [path |-> path, kind |-> kind]]
EnumValueItem(path) == [tag |-> "EnumValue", val |-> [path |-> path]]
NamespaceItem(path) == [tag |-> "Namespace", val |-> [path |-> path]]
ClassDecl(is_movable) == [tag |-> "Class", is_movable |-> is_movable]
EnumDecl == [tag |-> "Enum"]

\* CppItemData::all_involved_types (the method is not part of the sources at
\* hand): the types the filter inspects are the return type and the argument
\* types of a function item; the filter inspects no type of a field or base item
all_involved_types(item) ==
    IF item.tag = "Function"
    THEN <<item.val.return_type>>
         \o [i \in 1..Len(item.val.arguments) |-> item.val.arguments[i].argument_type]
    ELSE <<>>

\* bug: the types of the item are not inspected for template parameters
should_process_item_no_types(item) ==
    LET method == item.val
    IN  IF item.tag = "Function" /\ class_type(method).some /\ is_qflags(class_type(method).val)
        THEN FALSE
        ELSE IF item.tag = "Function" /\ method.member.some
                /\ method.member.val.visibility \in {"Private", "Protected"}
        THEN FALSE
        ELSE IF item.tag = "Function" /\ method.member.some /\ method.member.val.is_signal
        THEN FALSE
        ELSE IF item.tag = "Function" /\ last(method.path).template_arguments.some
        THEN FALSE
        ELSE TRUE

\* bug: the types of a field and the classes of a base are inspected for
\* template parameters as well
should_process_item_fields_filtered(item) ==
    IF item.tag = "ClassField" THEN ~is_or_contains_template_parameter(item.val.field_type)
    ELSE IF item.tag = "ClassBase"
    THEN /\ ~is_or_contains_template_parameter(Class(item.val.base_class_type))
         /\ ~is_or_contains_template_parameter(Class(item.val.derived_class_type))
    ELSE should_process_item_no_types(item)
         /\ ~\E i \in 1..Len(all_involved_types(item)) :
                 is_or_contains_template_parameter(all_involved_types(item)[i])

\* lines 481-511
should_process_item(item) ==
    LET method == item.val
    IN  IF item.tag = "Function" /\ class_type(method).some /\ is_qflags(class_type(method).val)
        THEN FALSE
        ELSE IF item.tag = "Function" /\ method.member.some
                /\ method.member.val.visibility = "Private"
        THEN FALSE
        ELSE IF item.tag = "Function" /\ method.member.some
                /\ method.member.val.visibility = "Protected"
        THEN FALSE
        ELSE IF item.tag = "Function" /\ method.member.some /\ method.member.val.is_signal
        THEN FALSE
        ELSE IF item.tag = "Function" /\ last(method.path).template_arguments.some
        THEN FALSE
        ELSE IF \E i \in 1..Len(all_involved_types(item)) :
                    is_or_contains_template_parameter(all_involved_types(item)[i])
        THEN FALSE
        ELSE TRUE

\* lines 73-85
RECURSIVE movable_types_of(_)
movable_types_of(items) ==
    IF Len(items) = 0 THEN <<>>
    ELSE (IF items[1].tag = "Type" /\ items[1].val.kind.tag = "Class"
             /\ items[1].val.kind.is_movable
          THEN <<items[1].val.path>> ELSE <<>>)
         \o movable_types_of(Tail(items))

\* lines 101-117
generate(item, movable, np) ==
    CASE item.tag \in {"Type", "EnumValue", "Namespace"} -> Ok(<<>>, np)
      [] item.tag = "Function" -> generate_ffi_methods_for_method(item.val, movable, np)
      [] item.tag = "ClassField" -> generate_field_accessors(item.val, movable, np)
      [] item.tag = "ClassBase" -> generate_casts(item.val, np)

\* ---------------------------------------------------------------- inputs
WPath == PathOf(<<"W">>)
VPath == PathOf(<<"V">>)
QFlagsPath == <<CppPathItem("QFlags", Some(<<IntType>>))>>

Member(kind, is_static, is_const, visibility, is_signal) ==
    Some([kind |-> kind, is_static |-> is_static, is_const |-> is_const,
          visibility |-> visibility, is_signal |-> is_signal])
Fn(path, member, return_type, arguments, variadic) ==
    [path |-> path, member |-> member, return_type |-> return_type,
     arguments |-> arguments, allows_variadic_arguments |-> variadic]
Field(path, field_type, visibility, is_static) ==
    [path |-> path, field_type |-> field_type, visibility |-> visibility,
     is_const |-> FALSE, is_static |-> is_static]
Base(derived, base, base_index) ==
    [base_class_type |-> base, base_index |-> base_index, is_virtual |-> FALSE,
     visibility |-> "Public", derived_class_type |-> derived]

IntArg == CppFunctionArgument("a", IntType, FALSE)
IntArgDefault == CppFunctionArgument("b", IntType, TRUE)
BadArgDefault == CppFunctionArgument("c", Opaque(FALSE, TRUE), TRUE)
ClassArg == CppFunctionArgument("w", Class(WPath), FALSE)

\* the items the driver is run over
DriverPool ==
    { TypeItem(VPath, ClassDecl(TRUE)),
      TypeItem(PathOf(<<"E">>), EnumDecl),
      EnumValueItem(PathOf(<<"E", "e1">>)),
      NamespaceItem(PathOf(<<"ns">>)),
      FunctionItem(Fn(PathOf(<<"foo">>), None, VoidType, <<IntArg, IntArgDefault>>, FALSE)),
      FunctionItem(Fn(PathOf(<<"foo">>), None, VoidType, <<IntArg>>, TRUE)),
      FunctionItem(Fn(PathOf(<<"foo">>), None, VoidType, <<IntArg, IntArgDefault>>, TRUE)),
      FunctionItem(Fn(PathOf(<<"foo1">>), None, Class(WPath), <<>>, FALSE)),
      FunctionItem(Fn(PathOf(<<"W", "W">>), Member("Constructor", FALSE, FALSE, "Public", FALSE),
                      VoidType, <<IntArgDefault>>, FALSE)),
      FunctionItem(Fn(PathOf(<<"W", "~W">>), Member("Destructor", FALSE, FALSE, "Public", FALSE),
                      VoidType, <<>>, FALSE)),
      FunctionItem(Fn(PathOf(<<"W", "get">>), Member("Regular", FALSE, TRUE, "Public", FALSE),
                      Class(VPath), <<ClassArg>>, FALSE)),
      FunctionItem(Fn(PathOf(<<"bar">>), None, Opaque(TRUE, FALSE), <<>>, FALSE)),
      ClassFieldItem(Field(PathOf(<<"W", "count">>), IntType, "Public", FALSE)),
      ClassFieldItem(Field(PathOf(<<"W", "obj">>), Class(VPath), "Public", TRUE)),
      ClassFieldItem(Field(PathOf(<<"W", "cb">>), Opaque(FALSE, TRUE), "Public", FALSE)),
      ClassFieldItem(Field(PathOf(<<"W", "hidden">>), IntType, "Private", FALSE)),
      ClassFieldItem(Field(PathOf(<<"W", "tfield">>), TemplateParameter, "Public", FALSE)),
      ClassFieldItem(Field(PathOf(<<"W", "thidden">>), TemplateParameter, "Protected", FALSE)),
      ClassBaseItem(Base(WPath, VPath, 2)),
      ClassBaseItem(Base(WPath, <<CppPathItem("X", Some(<<TemplateParameter>>))>>, 0)),
      FunctionItem(Fn(PathOf(<<"W", "priv">>), Member("Regular", FALSE, FALSE, "Private", FALSE),
                      VoidType, <<>>, FALSE)),
      FunctionItem(Fn(PathOf(<<"W", "prot">>), Member("Regular", FALSE, FALSE, "Protected", FALSE),
                      VoidType, <<>>, FALSE)),
      FunctionItem(Fn(PathOf(<<"W", "sig">>), Member("Regular", FALSE, FALSE, "Public", TRUE),
                      VoidType, <<>>, FALSE)),
      FunctionItem(Fn(<<CppPathItem("tmpl", Some(<<IntType>>))>>, None, VoidType, <<>>, FALSE)),
      FunctionItem(Fn(PathOf(<<"foo">>), None, VoidType,
                      <<CppFunctionArgument("t", new_pointer(FALSE, TemplateParameter), FALSE)>>,
                      FALSE)),
      FunctionItem(Fn(QFlagsPath \o PathOf(<<"QFlags">>),
                      Member("Constructor", FALSE, FALSE, "Public", FALSE),
                      VoidType, <<>>, FALSE)) }

\* the dependencies' items: W is declared there, movable or not
DepChoices ==
    { <<TypeItem(WPath, ClassDecl(TRUE))>>, <<TypeItem(WPath, ClassDecl(FALSE))>> }

\* the callables one call of a generator is applied to
ArgChoices == {IntArg, IntArgDefault, BadArgDefault}
ArgLists == UNION {[1..n -> ArgChoices] : n \in 0..MaxArgs}
MemberChoices ==
    { None,
      Member("Regular", FALSE, FALSE, "Public", FALSE),
      Member("Regular", FALSE, TRUE, "Public", FALSE),
      Member("Regular", TRUE, FALSE, "Public", FALSE),
      Member("Constructor", FALSE, FALSE, "Public", FALSE),
      Member("Destructor", FALSE, FALSE, "Public", FALSE) }
ClassChoices == {WPath, VPath, QFlagsPath}
ReturnChoices ==
    { VoidType, IntType, Class(WPath), Class(VPath), Class(QFlagsPath),
      new_pointer(FALSE, Class(WPath)), Opaque(TRUE, FALSE) }
MemberName(m, c) ==
    CASE m.val.kind = "Constructor" -> last(c).name
      [] m.val.kind = "Destructor" -> "~" \o last(c).name
      [] OTHER -> "get"
FnPool ==
    { Fn(PathOf(<<"foo">>), None, ret, args, variadic) :
          ret \in ReturnChoices, args \in ArgLists, variadic \in BOOLEAN }
    \cup
    { Fn(c \o PathOf(<<MemberName(m, c)>>), m,
         IF m.val.kind = "Regular" THEN ret ELSE VoidType,
         IF m.val.kind = "Destructor" THEN <<>> ELSE args,
         FALSE) :
          c \in ClassChoices, m \in MemberChoices \ {None},
          ret \in ReturnChoices, args \in ArgLists }
UPath == PathOf(<<"U">>)
FieldTypeChoices ==
    { IntType, Class(VPath), new_pointer(FALSE, Class(WPath)), Opaque(TRUE, FALSE) }
FieldPool ==
    { Field(PathOf(<<"W", "f">>), t, visibility, is_static) :
          t \in FieldTypeChoices, visibility \in {"Public", "Protected", "Private"},
          is_static \in BOOLEAN }
    \cup { Field(PathOf(<<"g">>), IntType, "Public", FALSE) }
BasePool ==
    { Base(d, b, i) : d \in {WPath, VPath}, b \in {VPath, UPath}, i \in {0, 1} }
CallPool ==
    {FunctionItem(f) : f \in FnPool}
    \cup {it \in DriverPool : it.tag \in {"Function", "ClassField", "ClassBase"}}
    \cup {ClassFieldItem(field) : field \in FieldPool}
    \cup {ClassBaseItem(base) : base \in BasePool}
NameChoices ==
    { {},
      {"ctr_lib_ffi_foo", "ctr_lib_ffi_W_get", "ctr_lib_ffi_W_count"},
      {"ctr_lib_ffi_foo", "ctr_lib_ffi_foo1", "ctr_lib_ffi_foo3"} }
BaseNames == {"foo", "W_get", "static_cast_V_ptr"}
AccessorTypes == {"CopyGetter", "ConstRefGetter", "MutRefGetter", "Setter"}

all_items == dep_items \o cpp_items
NoResult == [op |-> "none"]

\* ---------------------------------------------------------------- the driver
Init ==
    /\ cpp_items \in [1..NumItems -> DriverPool]
    /\ processed = [i \in 1..NumItems |-> FALSE]
    /\ ffi_items = <<>>
    /\ dep_items \in DepChoices
    /\ movable_types = <<>>
    /\ name_provider = FfiNameProvider(Prefix, {})
    /\ result = NoResult
    /\ idx = 1
    /\ pc = "idle"
    /\ pass = 0
    /\ contributed = [i \in 1..NumItems |-> {}]

\* run, lines 72-87
StartPass ==
    /\ pc = "idle"
    /\ pass < MaxPasses
    /\ movable_types' = movable_types_of(all_items)
    /\ name_provider' = FfiNameProvider_new(ffi_items)
    /\ result' = NoResult
    /\ idx' = 1
    /\ pc' = "loop"
    /\ UNCHANGED <<cpp_items, processed, ffi_items, dep_items, pass, contributed>>

InLoop == pc = "loop" /\ idx <= Len(cpp_items)

\* run, lines 119-122
on_error(r) ==
    /\ ~r.ok
    /\ result' = [op |-> "generate", r |-> r]
    /\ name_provider' = r.np
    /\ UNCHANGED <<ffi_items, processed, contributed>>

\* bug: the processed flag is not set after a success
on_success_no_flag(r) ==
    /\ r.ok
    /\ result' = [op |-> "generate", r |-> r]
    /\ name_provider' = r.np
    /\ ffi_items' = ffi_items \o r.val
    /\ contributed' = IF Len(r.val) > 0
                       THEN [contributed EXCEPT ![idx] = @ \cup {pass}]
                       ELSE contributed
    /\ processed' = processed

\* bug: the new functions are put in front of the collection
on_success_prepend(r) ==
    /\ r.ok
    /\ result' = [op |-> "generate", r |-> r]
    /\ name_provider' = r.np
    /\ ffi_items' = r.val \o ffi_items
    /\ contributed' = IF Len(r.val) > 0
                       THEN [contributed EXCEPT ![idx] = @ \cup {pass}]
                       ELSE contributed
    /\ processed' = [processed EXCEPT ![idx] = TRUE]

\* run, lines 123-135
on_success(r) ==
    /\ r.ok
    /\ result' = [op |-> "generate", r |-> r]
    /\ name_provider' = r.np
    /\ ffi_items' = ffi_items \o r.val
    /\ contributed' = IF Len(r.val) > 0
                       THEN [contributed EXCEPT ![idx] = @ \cup {pass}]
                       ELSE contributed
    /\ processed' = [processed EXCEPT ![idx] = TRUE]

\* bug: the `continue` is missing, the item is generated again
AlreadyProcessed_no_continue ==
    /\ InLoop
    /\ processed[idx]
    /\ on_success(generate(cpp_items[idx], movable_types, name_provider))
    /\ idx' = idx + 1
    /\ UNCHANGED <<cpp_items, dep_items, movable_types, pc, pass>>

\* run, lines 90-96
AlreadyProcessed ==
    /\ InLoop
    /\ processed[idx]
    /\ idx' = idx + 1
    /\ result' = NoResult
    /\ UNCHANGED <<cpp_items, processed, ffi_items, dep_items, movable_types,
                   name_provider, pc, pass, contributed>>

\* run, lines 97-100
Skipped ==
    /\ InLoop
    /\ ~processed[idx]
    /\ ~should_process_item(cpp_items[idx])
    /\ idx' = idx + 1
    /\ result' = NoResult
    /\ UNCHANGED <<cpp_items, processed, ffi_items, dep_items, movable_types,
                   name_provider, pc, pass, contributed>>

\* run, lines 101-122
ItemError ==
    /\ InLoop
    /\ ~processed[idx]
    /\ should_process_item(cpp_items[idx])
    /\ on_error(generate(cpp_items[idx], movable_types, name_provider))
    /\ idx' = idx + 1
    /\ UNCHANGED <<cpp_items, dep_items, movable_types, pc, pass>>

\* run, lines 101-117 and 123-135
ItemSuccess ==
    /\ InLoop
    /\ ~processed[idx]
    /\ should_process_item(cpp_items[idx])
    /\ on_success(generate(cpp_items[idx], movable_types, name_provider))
    /\ idx' = idx + 1
    /\ UNCHANGED <<cpp_items, dep_items, movable_types, pc, pass>>

\* run, line 138
EndPass ==
    /\ pc = "loop"
    /\ idx > Len(cpp_items)
    /\ pc' = "idle"
    /\ pass' = pass + 1
    /\ UNCHANGED <<cpp_items, processed, ffi_items, dep_items, movable_types,
                   name_provider, result, idx, contributed>>

Next ==
    \/ StartPass
    \/ AlreadyProcessed
    \/ Skipped
    \/ ItemError
    \/ ItemSuccess
    \/ EndPass

Spec == Init /\ [][Next]_vars

\* ---------------------------------------------------------------- a pass as a function
\* run, lines 72-139, applied to an item sequence: st holds ffi_items, the
\* flags and the name provider; used to state what a pass over another item
\* sequence yields
RECURSIVE run_loop(_, _, _, _)
\* lines 119-135
run_step(i, st, r) ==
    IF r.ok
    THEN [ffi_items |-> st.ffi_items \o r.val,
          processed |-> [st.processed EXCEPT ![i] = TRUE],
          np |-> r.np]
    ELSE [st EXCEPT !.np = r.np]
\* lines 89-137
run_loop(items, movable, i, st) ==
    IF i > Len(items) THEN st
    ELSE IF st.processed[i] \/ ~should_process_item(items[i])
    THEN run_loop(items, movable, i + 1, st)
    ELSE run_loop(items, movable, i + 1,
                  run_step(i, st, generate(items[i], movable, st.np)))
\* lines 72-139
run_pass(deps, items, flags, ffi) ==
    run_loop(items, movable_types_of(deps \o items), 1,
             [ffi_items |-> ffi, processed |-> flags, np |-> FfiNameProvider_new(ffi)])

\* ---------------------------------------------------------------- one call
\* a generator applied once to one callable, with a name provider that may
\* already hold names
InitCall ==
    /\ cpp_items \in {<<it>> : it \in CallPool}
    /\ processed = <<FALSE>>
    /\ ffi_items = <<>>
    /\ dep_items \in DepChoices \cup {<<TypeItem(VPath, ClassDecl(TRUE))>>}
    /\ movable_types = movable_types_of(dep_items)
    /\ name_provider \in {FfiNameProvider(Prefix, ns) : ns \in NameChoices}
    /\ result = NoResult
    /\ idx = 1
    /\ pc = "ready"
    /\ pass = 0
    /\ contributed = <<{}>>

Called(op, input, r) ==
    /\ result' = [op |-> op, input |-> input, r |-> r]
    /\ name_provider' = r.np
    /\ pc' = "done"
    /\ UNCHANGED <<cpp_items, processed, ffi_items, dep_items, movable_types, idx, pass,
                   contributed>>

CallToFfiMethod ==
    /\ pc = "ready"
    /\ \E kind \in IF cpp_items[1].tag = "Function"
                    THEN {FunctionKind(cpp_items[1].val, None, None)}
                    ELSE IF cpp_items[1].tag = "ClassField"
                    THEN {FieldAccessorKind(cpp_items[1].val, accessor_type) :
                              accessor_type \in AccessorTypes}
                    ELSE {} :
           Called("to_ffi_method", kind, to_ffi_method(kind, movable_types, name_provider))

\* FfiNameProvider::create_path(name), lines 51-68
CallCreatePath ==
    /\ pc = "ready"
    /\ \E name \in BaseNames :
           Called("create_path", name,
                  Ok(create_path(name_provider, name).path,
                     create_path(name_provider, name).np))

CallGenerateMethods ==
    /\ pc = "ready"
    /\ cpp_items[1].tag = "Function"
    /\ Called("generate_ffi_methods_for_method", cpp_items[1].val,
              generate_ffi_methods_for_method(cpp_items[1].val, movable_types, name_provider))

CallGenerateFieldAccessors ==
    /\ pc = "ready"
    /\ cpp_items[1].tag = "ClassField"
    /\ Called("generate_field_accessors", cpp_items[1].val,
              generate_field_accessors(cpp_items[1].val, movable_types, name_provider))

CallGenerateCasts ==
    /\ pc = "ready"
    /\ cpp_items[1].tag = "ClassBase"
    /\ Called("generate_casts", cpp_items[1].val,
              generate_casts(cpp_items[1].val, name_provider))

NextCall ==
    \/ CallCreatePath
    \/ CallToFfiMethod
    \/ CallGenerateMethods
    \/ CallGenerateFieldAccessors
    \/ CallGenerateCasts

SpecCall == InitCall /\ [][NextCall]_vars

\* ================================================================ properties
Paths(items) == [i \in 1..Len(items) |-> items[i].path]
Distinct(s) == \A i, j \in 1..Len(s) : i # j => s[i] # s[j]
NamedPath(name) == from_item(from_good_str(name))
CurrentItem == cpp_items[idx]
\* the paths returned by create_path during the step
NewlyCreated ==
    IF pc = "loop" /\ pc' = "loop"
    THEN {name_provider'.history[i] :
              i \in (Len(name_provider.history) + 1)..Len(name_provider'.history)}
    ELSE {}

\* C1: the paths of the persisted collection are pairwise distinct after any
\* number of passes, the paths create_path returns within one pass are
\* pairwise distinct, and no call returns a path that is already persisted.
C1_Uniqueness ==
    /\ [](Distinct(Paths(ffi_items)) /\ Distinct(name_provider.history))
    /\ [][\A path \in NewlyCreated :
              \A i \in 1..Len(ffi_items) : ffi_items[i].path # path]_vars

\* the second pass retries the variadic foo: foo and foo1 are persisted by
\* the first pass, and the call returns foo2
C1_Witness ==
    /\ pass = 1
    /\ Paths(ffi_items) = <<NamedPath("ctr_lib_ffi_foo"), NamedPath("ctr_lib_ffi_foo1")>>
    /\ name_provider.history = <<NamedPath("ctr_lib_ffi_foo2")>>

\* C2: in a pass that follows a finished pass over the same items, no step
\* appends to the persisted collection or changes a processed flag.
C2_Idempotence ==
    [][pass >= 1 => (ffi_items' = ffi_items /\ processed' = processed)]_vars

\* the second pass has run the generator again for an item that failed in the
\* first pass, next to an item the first pass generated functions for
C2_Witness ==
    /\ pass = 1
    /\ pc = "loop"
    /\ idx > Len(cpp_items)
    /\ result.op = "generate"
    /\ Len(ffi_items) > 0
    /\ \E i \in 1..Len(processed) : processed[i]

\* the conversions to_ffi_method asks for when it synthesizes kind
Conversions(kind) ==
    (IF this_arg_type_of(kind).val.some
     THEN {<<this_arg_type_of(kind).val.val, "NotReturnType">>} ELSE {})
    \cup {<<normal_args_of(kind)[i].argument_type, "NotReturnType">> :
              i \in 1..Len(normal_args_of(kind))}
    \cup {<<real_return_type_of(kind), "ReturnType">>}
\* the callables synthesized for an item
KindsOf(item) ==
    CASE item.tag = "Function" ->
            {FunctionKind([item.val EXCEPT !.arguments = SubSeq(@, 1, n)], None, None) :
                 n \in 0..Len(item.val.arguments)}
      [] item.tag = "ClassField" ->
            IF item.val.visibility # "Public" THEN {}
            ELSE {FieldAccessorKind(item.val, a) :
                     a \in IF is_class(item.val.field_type)
                           THEN {"ConstRefGetter", "MutRefGetter", "Setter"}
                           ELSE {"CopyGetter", "Setter"}}
      [] item.tag = "ClassBase" ->
            LET derived == new_pointer(FALSE, Class(item.val.derived_class_type))
                base == new_pointer(FALSE, Class(item.val.base_class_type))
            IN  {cast_kind(Static(TRUE, item.val.base_index), base, derived),
                 cast_kind(Static(FALSE, item.val.base_index), derived, base),
                 cast_kind(Dynamic, base, derived)}
      [] OTHER -> {}
\* a variadic callable, or a conversion failure in one of the item's
\* overloads or accessors
ItemFails(item) ==
    \/ item.tag = "Function" /\ item.val.allows_variadic_arguments
    \/ \E kind \in KindsOf(item) :
           \/ \E c \in Conversions(kind) : ~to_cpp_ffi_type(c[1], c[2]).some
           \/ this_arg_type_of(kind).err
Eligible == InLoop /\ ~processed[idx] /\ should_process_item(CurrentItem)

\* C3: when generation fails for an eligible, unprocessed item, the step
\* appends nothing to the persisted collection, leaves every flag as it was,
\* and the loop goes on with the next item.
C3_FailureSkipsItem ==
    [][(Eligible /\ ItemFails(CurrentItem))
        => /\ ffi_items' = ffi_items
           /\ processed' = processed
           /\ pc' = "loop"
           /\ idx' = idx + 1]_vars

\* a finished pass whose first item failed in its setter, after its copy
\* getter was synthesized, and whose second item was processed
C3_Witness ==
    /\ pass = 1
    /\ pc = "idle"
    /\ cpp_items[1] = ClassFieldItem(Field(PathOf(<<"W", "cb">>), Opaque(FALSE, TRUE),
                                           "Public", FALSE))
    /\ processed = <<FALSE, TRUE>>
    /\ Paths(ffi_items) = <<NamedPath("ctr_lib_ffi_W_count"),
                            NamedPath("ctr_lib_ffi_set_W_count")>>

\* the item a function of the collection refers back to
OriginOf(f, item) ==
    CASE item.tag = "Function" ->
            /\ f.kind.tag = "Function"
            /\ ~f.kind.cast.some
            /\ f.kind.cpp_function =
                   [item.val EXCEPT !.arguments =
                        SubSeq(@, 1, Len(f.kind.cpp_function.arguments))]
      [] item.tag = "ClassField" ->
            f.kind.tag = "FieldAccessor" /\ f.kind.field = item.val
      [] item.tag = "ClassBase" ->
            /\ f.kind.tag = "Function"
            /\ f.kind.cast.some
            /\ {f.kind.cpp_function.return_type.target,
                f.kind.cpp_function.arguments[1].argument_type.target}
               = {Class(item.val.derived_class_type), Class(item.val.base_class_type)}
      [] OTHER -> FALSE
\* the items that are generated with no function at all
ZeroItem(item) ==
    \/ item.tag \in {"Type", "EnumValue", "Namespace"}
    \/ item.tag = "ClassField" /\ item.val.visibility # "Public"
History(np, from, to) == SubSeq(np.history, from, to)

\* C4: when generation succeeds for an eligible, unprocessed item, the
\* persisted collection keeps its entries and gains, at its end, the item's
\* functions in the order they were generated (one per created path), and
\* the item's flag is set; a type, enum value, namespace or non-public field
\* item leaves the collection as it was and gets its flag set.
C4_SuccessAppends ==
    [][(Eligible /\ ~ItemFails(CurrentItem))
        => /\ Len(ffi_items') >= Len(ffi_items)
           /\ SubSeq(ffi_items', 1, Len(ffi_items)) = ffi_items
           /\ Paths(SubSeq(ffi_items', Len(ffi_items) + 1, Len(ffi_items')))
              = History(name_provider', Len(name_provider.history) + 1,
                        Len(name_provider'.history))
           /\ \A j \in (Len(ffi_items) + 1)..Len(ffi_items') :
                  OriginOf(ffi_items'[j], CurrentItem)
           /\ (ZeroItem(CurrentItem) => ffi_items' = ffi_items)
           /\ processed' = [processed EXCEPT ![idx] = TRUE]]_vars

\* a finished pass over a private field, which is flagged with no function,
\* and foo(int, int = default), whose two functions are appended in order
C4_Witness ==
    /\ pass = 1
    /\ pc = "idle"
    /\ cpp_items[1] = ClassFieldItem(Field(PathOf(<<"W", "hidden">>), IntType,
                                           "Private", FALSE))
    /\ processed = <<TRUE, TRUE>>
    /\ Paths(ffi_items) = <<NamedPath("ctr_lib_ffi_foo"), NamedPath("ctr_lib_ffi_foo1")>>
    /\ ffi_items[1].kind.omitted_arguments = None
    /\ ffi_items[2].kind.omitted_arguments = Some(1)

\* C5: the step for an item whose flag is set changes neither the persisted
\* collection, nor the name provider, nor a flag; and no item has functions
\* appended in more than one pass.
C5_SkipsProcessed ==
    /\ [](\A i \in 1..Len(contributed) : Cardinality(contributed[i]) <= 1)
    /\ [][(InLoop /\ processed[idx])
           => /\ ffi_items' = ffi_items
              /\ name_provider' = name_provider
              /\ processed' = processed
              /\ idx' = idx + 1]_vars

\* the second pass has just skipped the first item, whose functions the first
\* pass appended
C5_Witness ==
    /\ pass = 1
    /\ pc = "loop"
    /\ idx = 2
    /\ processed[1]
    /\ contributed[1] = {0}
    /\ Len(ffi_items) > 0
    /\ name_provider.history = <<>>

\* the conditions of the claim under which a function item is excluded
Excluded(item) ==
    /\ item.tag = "Function"
    /\ \/ item.val.member.some
          /\ is_qflags(SubSeq(item.val.path, 1, Len(item.val.path) - 1))
       \/ item.val.member.some /\ item.val.member.val.visibility \in {"Private", "Protected"}
       \/ item.val.member.some /\ item.val.member.val.is_signal
       \/ item.val.path[Len(item.val.path)].template_arguments.some
       \/ is_or_contains_template_parameter(item.val.return_type)
       \/ \E i \in 1..Len(item.val.arguments) :
              is_or_contains_template_parameter(item.val.arguments[i].argument_type)

\* C6: a function item that is in a QFlags class, private, protected, a
\* signal, has template arguments in the last segment of its path or a type
\* with a template parameter is rejected by should_process_item; its step
\* changes neither the collection, nor the name provider, nor a flag, its
\* flag is never set, and no function of the collection comes from it.
C6_Exclusion ==
    /\ [](/\ \A i \in 1..Len(cpp_items) :
                Excluded(cpp_items[i])
                    => ~should_process_item(cpp_items[i]) /\ ~processed[i]
          /\ \A j \in 1..Len(ffi_items) :
                (ffi_items[j].kind.tag = "Function" /\ ~ffi_items[j].kind.cast.some)
                    => ~Excluded(FunctionItem(ffi_items[j].kind.cpp_function)))
    /\ [][(InLoop /\ ~processed[idx] /\ Excluded(CurrentItem))
           => /\ ffi_items' = ffi_items
              /\ name_provider' = name_provider
              /\ processed' = processed]_vars

\* a finished pass over a signal and a function with a template parameter in
\* an argument type
C6_Witness ==
    /\ pass = 1
    /\ pc = "idle"
    /\ cpp_items[1].tag = "Function"
    /\ cpp_items[1].val.member.some
    /\ cpp_items[1].val.member.val.is_signal
    /\ cpp_items[2].tag = "Function"
    /\ Len(cpp_items[2].val.arguments) = 1
    /\ is_or_contains_template_parameter(cpp_items[2].val.arguments[1].argument_type)
    /\ ffi_items = <<>>
    /\ processed = <<FALSE, FALSE>>

\* the number of trailing arguments with a default value
RECURSIVE TrailingDefaults(_)
TrailingDefaults(args) ==
    IF Len(args) > 0 /\ args[Len(args)].has_default_value
    THEN 1 + TrailingDefaults(SubSeq(args, 1, Len(args) - 1))
    ELSE 0
WithMeaning(f, k) == {i \in 1..Len(f.arguments) : f.arguments[i].meaning.k = k}
\* the recorded count of omitted arguments; the full-arity function records None
Omitted(f) == IF f.kind.omitted_arguments.some THEN f.kind.omitted_arguments.val ELSE 0

\* C7: for a function with n arguments of which exactly the last k have a
\* default value, generate_ffi_methods_for_method yields k + 1 functions;
\* the j-th of them (j = 0 .. k) omits j arguments and keeps the first n - j
\* arguments as its positional arguments.
C7_DefaultExpansion ==
    (result.op = "generate_ffi_methods_for_method" /\ result.r.ok)
    => LET method == result.input
           n == Len(method.arguments)
           k == TrailingDefaults(method.arguments)
           methods == result.r.val
       IN  /\ Len(methods) = k + 1
           /\ \A j \in 0..k :
                  /\ Omitted(methods[j + 1]) = j
                  /\ Cardinality(WithMeaning(methods[j + 1], "Argument")) = n - j
                  /\ methods[j + 1].kind.cpp_function.arguments
                     = SubSeq(method.arguments, 1, n - j)

\* a function (default, no default, default): one argument is dropped, the
\* first argument, which has a default value, is kept
C7_Witness ==
    /\ result.op = "generate_ffi_methods_for_method"
    /\ result.r.ok
    /\ result.input.arguments = <<IntArgDefault, IntArg, IntArgDefault>>
    /\ Len(result.r.val) = 2
    /\ Cardinality(WithMeaning(result.r.val[2], "Argument")) = 2

\* the real return type as the claim gives it
RealReturnType(kind) ==
    IF kind.tag = "Function"
    THEN IF kind.cpp_function.member.some
            /\ kind.cpp_function.member.val.kind = "Constructor"
         THEN Class(SubSeq(kind.cpp_function.path, 1, Len(kind.cpp_function.path) - 1))
         ELSE kind.cpp_function.return_type
    ELSE CASE kind.accessor_type = "CopyGetter" -> kind.field.field_type
           [] kind.accessor_type = "ConstRefGetter" ->
                PointerLike("Reference", TRUE, kind.field.field_type)
           [] kind.accessor_type = "MutRefGetter" ->
                PointerLike("Reference", FALSE, kind.field.field_type)
           [] OTHER -> VoidType
IsMovable(path) == \E i \in 1..Len(movable_types) : movable_types[i] = path

\* C8: when the real return type is a class M that is not QFlags, the
\* function has, for a movable M, a void return type, one ReturnValue
\* argument of M's converted type as its last argument and the allocation
\* place Stack, and for any other M, M's converted type as return type, no
\* ReturnValue argument and the allocation place Heap; for every other real
\* return type of a callable that is no destructor the return type is the
\* converted type, with no ReturnValue argument and NotApplicable.
C8_MovableReturn ==
    (result.op = "to_ffi_method" /\ result.r.ok)
    => LET kind == result.input
           f == result.r.val
           M == RealReturnType(kind)
           converted == to_cpp_ffi_type(M, "ReturnType").val
       IN  IF M.k = "Class" /\ ~is_qflags(M.path)
           THEN IF IsMovable(M.path)
                THEN /\ f.return_type = ffi_void
                     /\ WithMeaning(f, "ReturnValue") = {Len(f.arguments)}
                     /\ f.arguments[Len(f.arguments)].argument_type = converted
                     /\ f.allocation_place = "Stack"
                ELSE /\ f.return_type = converted
                     /\ WithMeaning(f, "ReturnValue") = {}
                     /\ f.allocation_place = "Heap"
           ELSE (kind.tag = "Function" /\ is_destructor(kind.cpp_function))
                \/ /\ f.return_type = converted
                   /\ WithMeaning(f, "ReturnValue") = {}
                   /\ f.allocation_place = "NotApplicable"

\* a constructor of the movable class W with two arguments
C8_Witness ==
    /\ result.op = "to_ffi_method"
    /\ result.r.ok
    /\ result.input.tag = "Function"
    /\ is_constructor(result.input.cpp_function)
    /\ IsMovable(WPath)
    /\ class_type(result.input.cpp_function).val = WPath
    /\ Len(result.r.val.arguments) = 3
    /\ result.r.val.arguments[3].meaning = ReturnValue
    /\ result.r.val.allocation_place = "Stack"

MovableSet ==
    {movable_types_of(all_items)[i] : i \in 1..Len(movable_types_of(all_items))}
FromStructor(f) ==
    /\ f.kind.tag = "Function"
    /\ f.kind.cpp_function.member.some
    /\ f.kind.cpp_function.member.val.kind \in {"Constructor", "Destructor"}
OwningClass(f) == SubSeq(f.kind.cpp_function.path, 1, Len(f.kind.cpp_function.path) - 1)

\* C9: every function of the persisted collection that comes from a
\* constructor or the destructor of a class C has the allocation place Stack
\* if C is movable and Heap otherwise, so all of them agree for one class.
C9_StructorConsistency ==
    /\ \A i \in 1..Len(ffi_items) :
           FromStructor(ffi_items[i])
               => ffi_items[i].allocation_place
                  = IF OwningClass(ffi_items[i]) \in MovableSet THEN "Stack" ELSE "Heap"
    /\ \A i, j \in 1..Len(ffi_items) :
           (FromStructor(ffi_items[i]) /\ FromStructor(ffi_items[j])
            /\ OwningClass(ffi_items[i]) = OwningClass(ffi_items[j]))
               => ffi_items[i].allocation_place = ffi_items[j].allocation_place

\* the collection holds the functions of the constructor and of the
\* destructor of the movable class W
C9_Witness ==
    /\ WPath \in MovableSet
    /\ \E i, j \in 1..Len(ffi_items) :
           /\ FromStructor(ffi_items[i]) /\ FromStructor(ffi_items[j])
           /\ ffi_items[i].kind.cpp_function.member.val.kind = "Constructor"
           /\ ffi_items[j].kind.cpp_function.member.val.kind = "Destructor"
           /\ OwningClass(ffi_items[i]) = WPath
           /\ OwningClass(ffi_items[j]) = WPath

\* C10: for a member function of class X that is neither static nor a
\* constructor, with N arguments, the first argument of the function has the
\* meaning This and the type pointer to X, const iff the method is const, and
\* it is followed by N arguments with the meanings Argument(0) ..
\* Argument(N-1), which are the original arguments in their order; no other
\* argument has one of these meanings.
C10_ThisPointerShape ==
    (/\ result.op = "to_ffi_method"
     /\ result.r.ok
     /\ result.input.tag = "Function"
     /\ result.input.cpp_function.member.some
     /\ ~result.input.cpp_function.member.val.is_static
     /\ result.input.cpp_function.member.val.kind # "Constructor")
    => LET method == result.input.cpp_function
           f == result.r.val
           N == Len(method.arguments)
           X == SubSeq(method.path, 1, Len(method.path) - 1)
           this_type == PointerLike("Pointer", method.member.val.is_const, Class(X))
       IN  /\ Len(f.arguments) >= N + 1
           /\ f.arguments[1].meaning = This
           /\ f.arguments[1].argument_type.original_type = this_type
           /\ f.arguments[1].argument_type.ffi_type = this_type
           /\ WithMeaning(f, "This") = {1}
           /\ WithMeaning(f, "Argument") = 2..(N + 1)
           /\ \A i \in 1..N :
                  /\ f.arguments[i + 1].meaning = Argument(i - 1)
                  /\ f.arguments[i + 1].name = method.arguments[i].name
                  /\ f.arguments[i + 1].argument_type.original_type
                     = method.arguments[i].argument_type

\* a const method of W with three arguments
C10_Witness ==
    /\ result.op = "to_ffi_method"
    /\ result.r.ok
    /\ result.input.tag = "Function"
    /\ result.input.cpp_function.member.some
    /\ result.input.cpp_function.member.val.kind = "Regular"
    /\ result.input.cpp_function.member.val.is_const
    /\ ~result.input.cpp_function.member.val.is_static
    /\ Len(result.input.cpp_function.arguments) = 3
    /\ result.r.val.arguments[1].argument_type.ffi_type.is_const

\* the accessors of the claim for a public field, in their order
AccessorsOf(field) ==
    IF field.field_type.k = "Class"
    THEN <<"ConstRefGetter", "MutRefGetter", "Setter">>
    ELSE <<"CopyGetter", "Setter">>

\* C11: generate_field_accessors yields no function for a private or
\* protected field; for a public field it fails iff a conversion of one of
\* its accessors fails, and otherwise yields the copy getter and the setter
\* (2 functions) for a field that is not of class type, and the const-ref
\* getter, the mutable-ref getter and the setter (3 functions, no copy
\* getter) for a field of class type, in this order, each for this field.
C11_FieldAccessorCounts ==
    result.op = "generate_field_accessors"
    => LET field == result.input
           r == result.r
       IN  IF field.visibility # "Public"
           THEN r.ok /\ Len(r.val) = 0
           ELSE /\ r.ok <=> ~ItemFails(ClassFieldItem(field))
                /\ r.ok =>
                     /\ Len(r.val) = IF field.field_type.k = "Class" THEN 3 ELSE 2
                     /\ [j \in 1..Len(r.val) |-> r.val[j].kind.accessor_type]
                        = AccessorsOf(field)
                     /\ \A j \in 1..Len(r.val) :
                            /\ r.val[j].kind.tag = "FieldAccessor"
                            /\ r.val[j].kind.field = field

\* the three accessors of a public field of the class type V, which is not static
C11_Witness ==
    /\ result.op = "generate_field_accessors"
    /\ result.r.ok
    /\ result.input.field_type = Class(VPath)
    /\ ~result.input.is_static
    /\ Len(result.r.val) = 3
    /\ result.r.val[2].kind.accessor_type = "MutRefGetter"

\* the cast function the claim expects: one positional argument of the
\* source type, the destination type as return type
IsCast(f, cast, from, to) ==
    /\ f.kind.tag = "Function"
    /\ f.kind.cast = Some(cast)
    /\ f.kind.cpp_function.member = None
    /\ Len(f.arguments) = 1
    /\ f.arguments[1].meaning = Argument(0)
    /\ f.arguments[1].argument_type.original_type = from
    /\ f.arguments[1].argument_type.ffi_type = from
    /\ f.return_type.original_type = to
    /\ f.return_type.ffi_type = to

Formals(kind) ==
    IF kind.tag = "Function" THEN kind.cpp_function.arguments
    ELSE IF kind.accessor_type = "Setter"
    THEN <<[name |-> "value", argument_type |-> kind.field.field_type,
            has_default_value |-> FALSE]>>
    ELSE <<>>

\* C13: a function returned by to_ffi_method has at most one This argument,
\* which is its first argument, at most one ReturnValue argument, which is
\* its last argument, and between them one argument for each formal argument
\* of the callable, in their order, with the meanings Argument(0),
\* Argument(1), ... without gaps.
C13_ArgumentLayout ==
    (result.op = "to_ffi_method" /\ result.r.ok)
    => LET f == result.r.val
           formals == Formals(result.input)
           first == IF WithMeaning(f, "This") # {} THEN 2 ELSE 1
       IN  /\ WithMeaning(f, "This") \subseteq {1}
           /\ WithMeaning(f, "ReturnValue") \subseteq {Len(f.arguments)}
           /\ WithMeaning(f, "Argument") = first..(first + Len(formals) - 1)
           /\ Len(f.arguments)
              = Cardinality(WithMeaning(f, "This")) + Len(formals)
                + Cardinality(WithMeaning(f, "ReturnValue"))
           /\ \A i \in 1..Len(formals) :
                  /\ f.arguments[first + i - 1].meaning = [k |-> "Argument", index |-> i - 1]
                  /\ f.arguments[first + i - 1].name = formals[i].name
                  /\ f.arguments[first + i - 1].argument_type.original_type
                     = formals[i].argument_type

\* a method with two arguments that returns the movable class V: This, two
\* positional arguments, ReturnValue
C13_Witness ==
    /\ result.op = "to_ffi_method"
    /\ result.r.ok
    /\ Len(Formals(result.input)) = 2
    /\ Len(result.r.val.arguments) = 4
    /\ result.r.val.arguments[1].meaning = This
    /\ result.r.val.arguments[4].meaning = ReturnValue

\* C14: a function of the persisted collection has a ReturnValue argument
\* only if its own return type is void, and then its allocation place is Stack.
C14_ReturnSlotExclusive ==
    \A i \in 1..Len(ffi_items) :
        WithMeaning(ffi_items[i], "ReturnValue") # {}
            => /\ ffi_items[i].return_type.ffi_type = VoidType
               /\ ffi_items[i].return_type.original_type = VoidType
               /\ ffi_items[i].allocation_place = "Stack"

\* the collection holds a function with a ReturnValue argument next to a
\* function that returns a class by pointer
C14_Witness ==
    \E i, j \in 1..Len(ffi_items) :
        /\ WithMeaning(ffi_items[i], "ReturnValue") # {}
        /\ ffi_items[j].allocation_place = "Heap"
        /\ ffi_items[j].return_type.ffi_type.k = "PointerLike"

\* the name of the claim: the prefix, the base name and the number
Candidate(base_name, n) == Prefix \o "_" \o base_name \o ToString(n)

\* C15: create_path(base_name) returns prefix_base_name if that name is not
\* in the set of names, and otherwise prefix_base_name followed by the least
\* n >= 1 for which the name is not in the set; after the call the set holds
\* the names it held and the returned name, and nothing else.
C15_CandidateOrder ==
    [][result'.op = "create_path"
       => LET base_name == result'.input
              names == name_provider.names
              returned == result'.r.val[1].name
          IN  /\ Len(result'.r.val) = 1
              /\ result'.r.val[1].template_arguments = None
              /\ (Prefix \o "_" \o base_name) \notin names
                     => returned = Prefix \o "_" \o base_name
              /\ (Prefix \o "_" \o base_name) \in names
                     => \E n \in 1..(Cardinality(names) + 1) :
                            /\ returned = Candidate(base_name, n)
                            /\ returned \notin names
                            /\ \A m \in 1..(n - 1) : Candidate(base_name, m) \in names
              /\ name_provider'.names = names \cup {returned}]_vars

\* foo, foo1 and foo3 are taken: the call for foo has returned foo2
C15_Witness ==
    /\ result.op = "create_path"
    /\ result.input = "foo"
    /\ result.r.val = NamedPath("ctr_lib_ffi_foo2")
    /\ name_provider.names = {"ctr_lib_ffi_foo", "ctr_lib_ffi_foo1", "ctr_lib_ffi_foo2",
                              "ctr_lib_ffi_foo3"}

\* the items of a first pass that failed: eligible, and not flagged at its end
FailedAt(i) == should_process_item(cpp_items[i]) /\ ~processed[i]
RECURSIVE WithoutFailed(_)
\* the item sequence without the failed items, from position i on
WithoutFailed(i) ==
    IF i > Len(cpp_items) THEN <<>>
    ELSE (IF FailedAt(i) THEN <<>> ELSE <<cpp_items[i]>>) \o WithoutFailed(i + 1)
NoFlags(items) == [i \in 1..Len(items) |-> FALSE]

\* C16: at the end of a first pass in which an item failed, the persisted
\* collection, with its paths, is the one a first pass over the item sequence
\* without the failed items yields.
C16_FailureLocality ==
    (pass = 1 /\ pc = "idle" /\ \E i \in 1..Len(cpp_items) : FailedAt(i))
    => ffi_items
       = run_pass(dep_items, WithoutFailed(1), NoFlags(WithoutFailed(1)), <<>>).ffi_items

\* C17: every step keeps the entries of the persisted collection as they
\* are, in their places, and adds new ones only at its end; a flag that is
\* set stays set.
C17_AppendOnly ==
    [][/\ Len(ffi_items') >= Len(ffi_items)
       /\ SubSeq(ffi_items', 1, Len(ffi_items)) = ffi_items
       /\ \A i \in 1..Len(processed) : processed[i] => processed'[i]]_vars

\* both items of the first pass have appended functions, one after the other
C17_Witness ==
    /\ pass = 0
    /\ pc = "loop"
    /\ idx = Len(cpp_items) + 1
    /\ \A i \in 1..Len(cpp_items) : contributed[i] = {0} /\ processed[i]
    /\ Len(ffi_items) >= 4

Variadic(item) == item.tag = "Function" /\ item.val.allows_variadic_arguments

\* C18: the generator fails for an eligible function item that allows
\* variadic arguments: its step appends nothing and sets no flag; the flag of
\* such an item is never set and no function of the collection, of full or
\* of reduced arity, comes from a variadic function.
C18_VariadicRejection ==
    /\ [](/\ \A i \in 1..Len(cpp_items) : Variadic(cpp_items[i]) => ~processed[i]
          /\ \A j \in 1..Len(ffi_items) :
                 ffi_items[j].kind.tag = "Function"
                     => ~ffi_items[j].kind.cpp_function.allows_variadic_arguments)
    /\ [][(Eligible /\ Variadic(CurrentItem))
           => /\ result'.op = "generate"
              /\ ~result'.r.ok
              /\ ffi_items' = ffi_items
              /\ processed' = processed]_vars

\* a finished pass over the variadic foo(int, int = default, ...) and an item
\* that was processed
C18_Witness ==
    /\ pass = 1
    /\ pc = "idle"
    /\ Variadic(cpp_items[1])
    /\ Len(cpp_items[1].val.arguments) = 2
    /\ cpp_items[1].val.arguments[2].has_default_value
    /\ processed = <<FALSE, TRUE>>
    /\ Len(ffi_items) > 0

\* C19: the function of an accessor of a field that is not static has a
\* first argument with the meaning This, of the type pointer to the class of
\* the field, const for the copy getter and the const-ref getter and
\* non-const for the mutable-ref getter and the setter, and no other This
\* argument; the functions of static fields, static member functions, free
\* functions and constructors have no This argument.
C19_FieldThisPointer ==
    (result.op = "to_ffi_method" /\ result.r.ok)
    => LET kind == result.input
           f == result.r.val
       IN  IF kind.tag = "FieldAccessor"
           THEN IF kind.field.is_static
                THEN WithMeaning(f, "This") = {}
                ELSE LET this_type ==
                             PointerLike("Pointer",
                                 kind.accessor_type \in {"CopyGetter", "ConstRefGetter"},
                                 Class(SubSeq(kind.field.path, 1, Len(kind.field.path) - 1)))
                     IN  /\ WithMeaning(f, "This") = {1}
                         /\ f.arguments[1].argument_type.original_type = this_type
                         /\ f.arguments[1].argument_type.ffi_type = this_type
           ELSE (\/ ~kind.cpp_function.member.some
                 \/ kind.cpp_function.member.val.is_static
                 \/ kind.cpp_function.member.val.kind = "Constructor")
                => WithMeaning(f, "This") = {}

\* the setter of a field that is not static: a non-const This and the value
C19_Witness ==
    /\ result.op = "to_ffi_method"
    /\ result.r.ok
    /\ result.input.tag = "FieldAccessor"
    /\ result.input.accessor_type = "Setter"
    /\ ~result.input.field.is_static
    /\ Len(result.r.val.arguments) = 2
    /\ result.r.val.arguments[1].meaning = This
    /\ ~result.r.val.arguments[1].argument_type.ffi_type.is_const

\* a field whose type, or a base relationship one of whose classes, is or
\* contains a template parameter
TemplateDependent(item) ==
    \/ /\ item.tag = "ClassField"
       /\ is_or_contains_template_parameter(item.val.field_type)
    \/ /\ item.tag = "ClassBase"
       /\ \/ is_or_contains_template_parameter(Class(item.val.base_class_type))
          \/ is_or_contains_template_parameter(Class(item.val.derived_class_type))

====
